---- MODULE Spec2Model ----
(***************************************************************************)
(* Model of the Energy Web Chain data parser (polyphene/ewc-parser).       *)
(*                                                                         *)
(* Two revisions of parseEwcData are modelled side by side and selected    *)
(* by the variable `variant`:                                              *)
(*   "index"   - src/src/index.ts     (agreement-extended revision; rows   *)
(*               carry no row id, Certificate carries batchId, claim data  *)
(*               is decoded by the external ClaimDataCoder)                *)
(*   "part000" - src/unnamed/part_000 (back-reference revision; rows carry *)
(*               an id, Certificate carries claimIds, claim data is        *)
(*               decoded by decodeClaimV3 / decodeClaimV1 / decodeClaimV2) *)
(*                                                                         *)
(* Representation of values                                                *)
(*   BigNumber      big-endian sequence of 16-bit limbs (four hexadecimal  *)
(*                  digits of the _hex field each), leading zero limbs     *)
(*                  allowed in the inputs                                  *)
(*   decimal string big-endian sequence of groups of four decimal digits   *)
(*                  (base 10000), no leading zero group                    *)
(*   text / bytes   sequence of ASCII codes                                *)
(*   ABI words      the ABI layout is kept, scaled to a word of one byte:  *)
(*                  a head of n offsets, each string a length word         *)
(*                  followed by its bytes                                  *)
(***************************************************************************)
EXTENDS Integers, Sequences, FiniteSets, TLC

(***************************************************************************)
(* Generic sequence helpers                                                *)
(***************************************************************************)
RECURSIVE Reverse(_)
Reverse(s) ==
    IF s = <<>> THEN <<>> ELSE Append(Reverse(Tail(s)), Head(s))

RECURSIVE StripZeros(_)
StripZeros(s) ==
    IF s = <<>> THEN <<>>
    ELSE IF Head(s) = 0 THEN StripZeros(Tail(s)) ELSE s

RECURSIVE Flatten(_)
Flatten(ss) ==
    IF ss = <<>> THEN <<>> ELSE Head(ss) \o Flatten(Tail(ss))

(***************************************************************************)
(* Arbitrary-precision arithmetic (ethers BigNumber, backed by BN.js).     *)
(* Little-endian digit sequences are used inside the helpers.              *)
(***************************************************************************)
\* s * m + c over little-endian digits in the given base
RECURSIVE MulAddLE(_, _, _, _)
MulAddLE(s, m, c, base) ==
    IF s = <<>>
    THEN IF c = 0 THEN <<>>
         ELSE <<c % base>> \o MulAddLE(<<>>, m, c \div base, base)
    ELSE LET v == Head(s) * m + c
         IN  <<v % base>> \o MulAddLE(Tail(s), m, v \div base, base)

\* a + b + c over little-endian digits in the given base
RECURSIVE AddLE(_, _, _, _)
AddLE(a, b, c, base) ==
    IF a = <<>> /\ b = <<>>
    THEN IF c = 0 THEN <<>> ELSE <<c>>
    ELSE LET x == IF a = <<>> THEN 0 ELSE Head(a)
             y == IF b = <<>> THEN 0 ELSE Head(b)
             v == x + y + c
         IN  <<v % base>> \o AddLE(IF a = <<>> THEN <<>> ELSE Tail(a),
                                   IF b = <<>> THEN <<>> ELSE Tail(b),
                                   v \div base, base)

\* big-endian digits in base `from` to little-endian digits in base `to`
RECURSIVE ConvertLE(_, _, _, _)
ConvertLE(digits, from, to, acc) ==
    IF digits = <<>> THEN acc
    ELSE ConvertLE(Tail(digits), from, to, MulAddLE(acc, from, Head(digits), to))

\* canonical big-endian digits: no leading zero, zero is <<0>>
Canonical(le) ==
    LET be == StripZeros(Reverse(le)) IN IF be = <<>> THEN <<0>> ELSE be

\* BigNumber.eq: comparison of the integers, not of their encodings
BNeq(a, b) == StripZeros(a) = StripZeros(b)

\* mutant: the stored encoding is rendered as it is
BNtoStringRaw(a) == a

\* BigNumber.toString(): canonical decimal rendering
BNtoString(a) == Canonical(ConvertLE(a, 65536, 10000, <<>>))

\* BigNumber.from(decimal string)
BNfrom(dec) == Canonical(ConvertLE(dec, 10000, 65536, <<>>))

\* mutant: the sum wraps at 64 bits (four limbs)
BNaddWrap64(a, b) ==
    LET le == AddLE(Reverse(a), Reverse(b), 0, 65536)
    IN  Canonical(SubSeq(le, 1, IF Len(le) > 4 THEN 4 ELSE Len(le)))

\* BigNumber.add
BNadd(a, b) == Canonical(AddLE(Reverse(a), Reverse(b), 0, 65536))

(***************************************************************************)
(* ABI decoding (ethers defaultAbiCoder.decode of a tuple of strings, in   *)
(* its default loose mode: trailing data is ignored).  Offsets and lengths *)
(* count one-byte words.  Any read past the end of the data throws.        *)
(***************************************************************************)
AbiFail == [ok |-> FALSE, vals |-> <<>>]

\* DynamicBytesCoder / StringCoder at a given offset of the tuple's data
ReadString(data, off) ==
    IF off + 1 > Len(data)
    THEN [ok |-> FALSE, s |-> <<>>]
    ELSE LET len == data[off + 1]
         IN  IF off + 1 + len > Len(data)
             THEN [ok |-> FALSE, s |-> <<>>]
             ELSE LET s == SubSeq(data, off + 2, off + 1 + len)
                  IN  \* toUtf8String rejects bytes that are no ASCII
                      IF \E i \in 1..Len(s) : s[i] >= 128
                      THEN [ok |-> FALSE, s |-> <<>>]
                      ELSE [ok |-> TRUE, s |-> s]

\* defaultAbiCoder.decode(['string', ... n times], data)
AbiDecodeStrings(n, data) ==
    IF Len(data) < n THEN AbiFail
    ELSE LET r == [i \in 1..n |-> ReadString(data, data[i])]
         IN  IF \A i \in 1..n : r[i].ok
             THEN [ok |-> TRUE, vals |-> [i \in 1..n |-> r[i].s]]
             ELSE AbiFail

\* defaultAbiCoder.encode(['string', ...], strs): used to build input blobs
RECURSIVE AbiTailOffsets(_, _)
AbiTailOffsets(strs, at) ==
    IF strs = <<>> THEN <<>>
    ELSE <<at>> \o AbiTailOffsets(Tail(strs), at + 1 + Len(Head(strs)))

AbiEncodeStrings(strs) ==
    AbiTailOffsets(strs, Len(strs))
        \o Flatten([i \in 1..Len(strs) |-> <<Len(strs[i])>> \o strs[i]])

(***************************************************************************)
(* JavaScript values: one record shape for all of them.                    *)
(*   t  the kind: "null", "true", "false", "num", "str", "obj"             *)
(*   s  the digits of a number or the characters of a string               *)
(*   m  the members of an object, in property order: <<key, value>> pairs  *)
(***************************************************************************)
JNull == [t |-> "null", s |-> <<>>, m |-> <<>>]
JTrue == [t |-> "true", s |-> <<>>, m |-> <<>>]
JFalse == [t |-> "false", s |-> <<>>, m |-> <<>>]
JNum(digits) == [t |-> "num", s |-> digits, m |-> <<>>]
JStr(chars) == [t |-> "str", s |-> chars, m |-> <<>>]
JObj(members) == [t |-> "obj", s |-> <<>>, m |-> members]

\* the value no decoded tuple element ever is (JavaScript undefined)
Undefined == <<-1>>

\* JavaScript truthiness, as tested by `!claimDataDecoded`
Truthy(v) ==
    CASE v.t = "null" -> FALSE
      [] v.t = "false" -> FALSE
      [] v.t = "num" -> v.s # <<48>>
      [] v.t = "str" -> v.s # <<>>
      [] OTHER -> TRUE

\* "beneficiary"
K_beneficiary == <<98, 101, 110, 101, 102, 105, 99, 105, 97, 114, 121>>

\* "region"
K_region == <<114, 101, 103, 105, 111, 110>>

\* "countryCode"
K_countryCode == <<99, 111, 117, 110, 116, 114, 121, 67, 111, 100, 101>>

\* "periodStartDate"
K_periodStartDate ==
    <<112, 101, 114, 105, 111, 100, 83, 116, 97, 114, 116, 68, 97, 116, 101>>

\* "periodEndDate"
K_periodEndDate ==
    <<112, 101, 114, 105, 111, 100, 69, 110, 100, 68, 97, 116, 101>>

\* "purpose"
K_purpose == <<112, 117, 114, 112, 111, 115, 101>>

\* "consumptionEntityID"
K_consumptionEntityID ==
    <<99, 111, 110, 115, 117, 109, 112, 116, 105, 111, 110, 69, 110, 116, 105,
      116, 121, 73, 68>>

\* "proofID"
K_proofID == <<112, 114, 111, 111, 102, 73, 68>>

\* "location"
K_location == <<108, 111, 99, 97, 116, 105, 111, 110>>

\* "null"
T_null == <<110, 117, 108, 108>>

\* "true"
T_true == <<116, 114, 117, 101>>

\* "false"
T_false == <<102, 97, 108, 115, 101>>

(***************************************************************************)
(* JSON.parse, for the grammar the modelled payloads use: white space,     *)
(* null, true, false, unsigned integers, strings without escapes and       *)
(* objects (nested to any depth).  Arrays, signs, fractions, exponents and *)
(* escape sequences are outside the modelled inputs.                       *)
(***************************************************************************)
JFail == [ok |-> FALSE, v |-> JNull, next |-> 0]

IsWs(c) == c \in {9, 10, 13, 32}
IsDigit(c) == c \in 48..57

RECURSIVE SkipWs(_, _)
SkipWs(t, i) ==
    IF i <= Len(t) /\ IsWs(t[i]) THEN SkipWs(t, i + 1) ELSE i

\* index just past the digits starting at i
RECURSIVE DigitsEnd(_, _)
DigitsEnd(t, i) ==
    IF i <= Len(t) /\ IsDigit(t[i]) THEN DigitsEnd(t, i + 1) ELSE i

\* index of the closing quote of the string whose content starts at i, or 0
RECURSIVE StringEnd(_, _)
StringEnd(t, i) ==
    IF i > Len(t) THEN 0
    ELSE IF t[i] = 34 THEN i
    ELSE IF t[i] < 32 \/ t[i] = 92 THEN 0
    ELSE StringEnd(t, i + 1)

\* a literal word at position i
Literal(t, i, word, v) ==
    IF i + Len(word) - 1 <= Len(t) /\ SubSeq(t, i, i + Len(word) - 1) = word
    THEN [ok |-> TRUE, v |-> v, next |-> i + Len(word)]
    ELSE JFail

ParseString(t, i) ==
    IF i > Len(t) \/ t[i] # 34 THEN JFail
    ELSE LET e == StringEnd(t, i + 1)
         IN  IF e = 0 THEN JFail
             ELSE [ok |-> TRUE, v |-> JStr(SubSeq(t, i + 1, e - 1)),
                   next |-> e + 1]

ParseNumber(t, i) ==
    LET e == IF t[i] = 48 THEN i + 1 ELSE DigitsEnd(t, i)
    IN  [ok |-> TRUE, v |-> JNum(SubSeq(t, i, e - 1)), next |-> e]

\* property assignment: a repeated key keeps its position and takes the
\* last value
RECURSIVE ObjSet(_, _, _)
ObjSet(m, k, v) ==
    IF m = <<>> THEN << <<k, v>> >>
    ELSE IF Head(m)[1] = k THEN << <<k, v>> >> \o Tail(m)
    ELSE <<Head(m)>> \o ObjSet(Tail(m), k, v)

RECURSIVE ParseValue(_, _)
RECURSIVE ParseMembers(_, _, _)
ParseValue(t, i) ==
    IF i > Len(t) THEN JFail
    ELSE CASE t[i] = 110 -> Literal(t, i, T_null, JNull)
           [] t[i] = 116 -> Literal(t, i, T_true, JTrue)
           [] t[i] = 102 -> Literal(t, i, T_false, JFalse)
           [] t[i] = 34 -> ParseString(t, i)
           [] IsDigit(t[i]) -> ParseNumber(t, i)
           [] t[i] = 123 ->
                LET j == SkipWs(t, i + 1)
                IN  IF j <= Len(t) /\ t[j] = 125
                    THEN [ok |-> TRUE, v |-> JObj(<<>>), next |-> j + 1]
                    ELSE ParseMembers(t, j, <<>>)
           [] OTHER -> JFail

\* members of an object from position i on, up to and including the "}"
ParseMembers(t, i, acc) ==
    LET k == ParseString(t, i)
    IN  IF ~k.ok THEN JFail
        ELSE LET c == SkipWs(t, k.next)
             IN  IF c > Len(t) \/ t[c] # 58 THEN JFail
                 ELSE LET v == ParseValue(t, SkipWs(t, c + 1))
                      IN  IF ~v.ok THEN JFail
                          ELSE LET d == SkipWs(t, v.next)
                                   m == ObjSet(acc, k.v.s, v.v)
                               IN  IF d > Len(t) THEN JFail
                                   ELSE IF t[d] = 125
                                   THEN [ok |-> TRUE, v |-> JObj(m),
                                         next |-> d + 1]
                                   ELSE IF t[d] = 44
                                   THEN ParseMembers(t, SkipWs(t, d + 1), m)
                                   ELSE JFail

\* JSON.parse(text): ok = FALSE stands for the SyntaxError it throws
JSONparse(t) ==
    LET r == ParseValue(t, SkipWs(t, 1))
    IN  IF r.ok /\ SkipWs(t, r.next) = Len(t) + 1
        THEN [ok |-> TRUE, v |-> r.v]
        ELSE [ok |-> FALSE, v |-> JNull]

(***************************************************************************)
(* JSON.stringify                                                          *)
(***************************************************************************)
HexDigit(d) == IF d < 10 THEN 48 + d ELSE 87 + d

\* one character of a quoted string
EscapeChar(c) ==
    CASE c = 34 -> <<92, 34>>
      [] c = 92 -> <<92, 92>>
      [] c = 8 -> <<92, 98>>
      [] c = 9 -> <<92, 116>>
      [] c = 10 -> <<92, 110>>
      [] c = 12 -> <<92, 102>>
      [] c = 13 -> <<92, 114>>
      [] c < 32 /\ c \notin {8, 9, 10, 12, 13} ->
            <<92, 117, 48, 48, HexDigit(c \div 16), HexDigit(c % 16)>>
      [] OTHER -> <<c>>

Quote(s) == <<34>> \o Flatten([i \in 1..Len(s) |-> EscapeChar(s[i])]) \o <<34>>

RECURSIVE JSONstringify(_)
RECURSIVE StringifyMembers(_)
JSONstringify(v) ==
    CASE v.t = "null" -> T_null
      [] v.t = "true" -> T_true
      [] v.t = "false" -> T_false
      [] v.t = "num" -> v.s
      [] v.t = "str" -> Quote(v.s)
      [] OTHER -> <<123>> \o StringifyMembers(v.m) \o <<125>>

StringifyMembers(m) ==
    IF m = <<>> THEN <<>>
    ELSE Quote(Head(m)[1]) \o <<58>> \o JSONstringify(Head(m)[2])
            \o (IF Len(m) > 1 THEN <<44>> ELSE <<>>)
            \o StringifyMembers(Tail(m))

(***************************************************************************)
(* Claim payload decoders of src/unnamed/part_000.  null is JNull.         *)
(***************************************************************************)
decodeClaimV1(data) ==
    LET d == AbiDecodeStrings(6, data)
    IN  IF ~d.ok THEN JNull
        ELSE IF \E i \in 1..6 : d.vals[i] = Undefined THEN JNull
        ELSE JObj(<< <<K_beneficiary, JStr(d.vals[1])>>,
                     <<K_region, JStr(<<>>)>>,
                     <<K_countryCode, JStr(d.vals[3])>>,
                     <<K_periodStartDate, JStr(d.vals[4])>>,
                     <<K_periodEndDate, JStr(d.vals[5])>>,
                     <<K_purpose, JStr(d.vals[6])>>,
                     <<K_consumptionEntityID, JStr(<<>>)>>,
                     <<K_proofID, JStr(<<>>)>>,
                     <<K_location, JStr(d.vals[2])>> >>)

decodeClaimV2(data) ==
    LET d == AbiDecodeStrings(1, data)
    IN  IF ~d.ok THEN JNull
        ELSE LET p == JSONparse(d.vals[1])
             IN  IF p.ok THEN p.v ELSE JNull

decodeClaimV3(data) ==
    LET d == AbiDecodeStrings(8, data)
    IN  IF ~d.ok THEN JNull
        ELSE IF \E i \in 1..8 : d.vals[i] = Undefined THEN JNull
        ELSE JObj(<< <<K_beneficiary, JStr(d.vals[1])>>,
                     <<K_region, JStr(d.vals[2])>>,
                     <<K_countryCode, JStr(d.vals[3])>>,
                     <<K_periodStartDate, JStr(d.vals[4])>>,
                     <<K_periodEndDate, JStr(d.vals[5])>>,
                     <<K_purpose, JStr(d.vals[6])>>,
                     <<K_consumptionEntityID, JStr(d.vals[7])>>,
                     <<K_proofID, JStr(d.vals[8])>>,
                     <<K_location, JStr(<<>>)>> >>)

\* mutant: V2 is tried before V1
DecodeClaimDataV2BeforeV1(claimData) ==
    LET v3 == decodeClaimV3(claimData)
    IN  IF Truthy(v3) THEN v3
        ELSE LET v2 == decodeClaimV2(claimData)
             IN  IF Truthy(v2) THEN v2 ELSE decodeClaimV1(claimData)

\* the fallback chain inside parseEwcData: V3, then V1, then V2
DecodeClaimData(claimData) ==
    LET v3 == decodeClaimV3(claimData)
    IN  IF Truthy(v3) THEN v3
        ELSE LET v1 == decodeClaimV1(claimData)
             IN  IF Truthy(v1) THEN v1 ELSE decodeClaimV2(claimData)

\* JSON.stringify(ClaimDataCoder.decode(claimData)) of src/src/index.ts: the
\* coder is an external package, its result is kept as an uninterpreted
\* image of the blob (the tag -2 is no byte)
ExternalDecoded(claimData) == <<-2>> \o claimData

(***************************************************************************)
(* State                                                                   *)
(***************************************************************************)
VARIABLES
    variant,                       \* which revision runs
    coderRejects,                  \* blobs the external ClaimDataCoder throws on
    arrival,                       \* RedemptionStatementSet events as returned
    redemptionSetEvents,           \* the same array, sorted in place by the run
    certificateBatchMintedEvents,  \* CertificateBatchMinted events
    mintEvents,                    \* TransferSingle events from the zero address
    claimSingleEvents,             \* ClaimSingle events
    batches, certificates, claims, \* the derived tables
    mintedValue, claimedValue,     \* the report totals (BigNumber)
    r,                             \* position of the outer loop
    pc,                            \* "begin", "cache", "reconcile", "start",
                                   \* "loop", "done", "failed"
    agreementSignedEvents,         \* AgreementSigned events (index.ts)
    agreementFilledEvents,         \* AgreementFilled events (index.ts)
    accessor,                      \* what agreementData(address) answers
    accessorCalls,                 \* the addresses agreementData was called with
    agreementsData,                \* the in-memory map keyed by address
    cacheAtStartup,                \* lines of the cache file before the run
    cacheFile,                     \* lines of the cache file
    stream,                        \* "none", "open", "ended"
    opens,                         \* number of createWriteStream calls
    compared,                      \* (signed, filled) positions the inner loop met
    diagnostics,                   \* the amount-mismatch reports on the console
    agreements,                    \* the Agreement table
    signedAt                       \* position of the loops over signed events

vars == <<variant, coderRejects, arrival, redemptionSetEvents,
          certificateBatchMintedEvents, mintEvents, claimSingleEvents,
          batches, certificates, claims, mintedValue, claimedValue, r, pc,
          agreementSignedEvents, agreementFilledEvents, accessor,
          accessorCalls, agreementsData, cacheAtStartup, cacheFile, stream,
          opens, compared, diagnostics, agreements, signedAt>>

inputs == <<variant, coderRejects, arrival, certificateBatchMintedEvents,
            mintEvents, claimSingleEvents>>

\* the state of the agreements part of index.ts
settlement == <<agreementSignedEvents, agreementFilledEvents, accessor,
                accessorCalls, agreementsData, cacheAtStartup, cacheFile,
                stream, opens, compared, diagnostics, agreements, signedAt>>

\* the state of the correlation
correlation == <<redemptionSetEvents, batches, certificates, claims,
                 mintedValue, claimedValue, r>>

(***************************************************************************)
(* Array.prototype.sort((a, b) => a.blockNumber - b.blockNumber): stable   *)
(***************************************************************************)
RECURSIVE InsertByBlockNumber(_, _)
InsertByBlockNumber(s, e) ==
    IF s = <<>> THEN <<e>>
    ELSE IF Head(s).blockNumber - e.blockNumber <= 0
    THEN <<Head(s)>> \o InsertByBlockNumber(Tail(s), e)
    ELSE <<e>> \o s

\* mutant: the events are left in arrival order
SortNone(s) == s

RECURSIVE SortByBlockNumber(_)
SortByBlockNumber(s) ==
    IF s = <<>> THEN <<>>
    ELSE InsertByBlockNumber(SortByBlockNumber(SubSeq(s, 1, Len(s) - 1)),
                             s[Len(s)])

\* Number.prototype.toString() of an array length
NumToString(n) == Canonical(MulAddLE(<<>>, 0, n, 10000))

(***************************************************************************)
(* Rows                                                                    *)
(***************************************************************************)
ClaimRow(e, n) ==
    IF variant = "index"
    THEN [tokenId |-> BNtoString(e._id),
          claimIssuer |-> e._claimIssuer,
          claimSubject |-> e._claimSubject,
          topic |-> BNtoString(e._topic),
          value |-> BNtoString(e._value),
          claimData |-> e._claimData,
          claimDataDecoded |-> ExternalDecoded(e._claimData),
          transactionHash |-> e.transactionHash]
    ELSE [id |-> NumToString(n),
          claimIssuer |-> e._claimIssuer,
          claimSubject |-> e._claimSubject,
          topic |-> BNtoString(e._topic),
          certificateId |-> BNtoString(e._id),
          value |-> BNtoString(e._value),
          claimData |-> e._claimData,
          claimDataDecoded |-> JSONstringify(DecodeClaimData(e._claimData)),
          transactionHash |-> e.transactionHash]

CertificateRow(e, certificateId, batchId, claimIds, n) ==
    IF variant = "index"
    THEN [tokenId |-> BNtoString(certificateId),
          batchId |-> batchId,
          value |-> BNtoString(e.value),
          operator |-> e.operator,
          from |-> e.from,
          to |-> e.to,
          transactionHash |-> e.transactionHash]
    ELSE [id |-> NumToString(n),
          tokenId |-> BNtoString(certificateId),
          value |-> BNtoString(e.value),
          operator |-> e.operator,
          from |-> e.from,
          to |-> e.to,
          claimIds |-> claimIds,
          transactionHash |-> e.transactionHash]

BatchRow(e, batchCertificateIds, n) ==
    IF variant = "index"
    THEN [batchId |-> e.batchId,
          storagePointer |-> e.storagePointer,
          certificateIds |-> batchCertificateIds,
          redemptionStatement |-> e.redemptionStatement,
          transactionHash |-> e.transactionHash]
    ELSE [id |-> NumToString(n),
          batchId |-> e.batchId,
          storagePointer |-> e.storagePointer,
          certificateIds |-> batchCertificateIds,
          redemptionStatement |-> e.redemptionStatement,
          transactionHash |-> e.transactionHash]

(***************************************************************************)
(* The nested loops of parseEwcData.  Each loop threads the accumulator    *)
(*   [certificates, claims, ids, threw]                                    *)
(* where ids is batchCertificateIds (outer loops) or claimIds (claim loop) *)
(* and threw records an exception of the external decoder, which leaves    *)
(* every enclosing loop.                                                   *)
(***************************************************************************)
\* mutant: the claim identifier is taken after the Claim row is pushed
RECURSIVE ClaimLoopIdAfterPush(_, _, _)
ClaimLoopIdAfterPush(acc, certificateId, k) ==
    IF acc.threw \/ k > Len(claimSingleEvents) THEN acc
    ELSE LET e == claimSingleEvents[k]
         IN  IF BNeq(e._id, certificateId)
             THEN IF variant = "index" /\ e._claimData \in coderRejects
                  THEN [acc EXCEPT !.threw = TRUE]
                  ELSE ClaimLoopIdAfterPush(
                         [acc EXCEPT
                            !.ids = IF variant = "index" THEN @
                                    ELSE Append(@,
                                           NumToString(Len(acc.claims) + 1)),
                            !.claims = Append(@, ClaimRow(e, Len(acc.claims)))],
                         certificateId, k + 1)
             ELSE ClaimLoopIdAfterPush(acc, certificateId, k + 1)

\* for (const claimSingleEvent of claimSingleEvents), from position k
RECURSIVE ClaimLoop(_, _, _)
ClaimLoop(acc, certificateId, k) ==
    IF acc.threw \/ k > Len(claimSingleEvents) THEN acc
    ELSE LET e == claimSingleEvents[k]
         IN  IF BNeq(e._id, certificateId)
             THEN IF variant = "index" /\ e._claimData \in coderRejects
                  THEN [acc EXCEPT !.threw = TRUE]
                  ELSE ClaimLoop(
                         [acc EXCEPT
                            !.ids = IF variant = "index" THEN @
                                    ELSE Append(@, NumToString(Len(acc.claims))),
                            !.claims = Append(@, ClaimRow(e, Len(acc.claims)))],
                         certificateId, k + 1)
             ELSE ClaimLoop(acc, certificateId, k + 1)

\* mutant: the scan of the mint events stops at the first match
RECURSIVE MintLoopFirstMatch(_, _, _, _)
MintLoopFirstMatch(acc, certificateId, batchId, j) ==
    IF acc.threw \/ j > Len(mintEvents) THEN acc
    ELSE LET e == mintEvents[j]
         IN  IF BNeq(e.id, certificateId)
             THEN LET cl == ClaimLoop([acc EXCEPT !.ids = <<>>],
                                      certificateId, 1)
                      n == Len(acc.certificates)
                  IN  IF cl.threw THEN [cl EXCEPT !.ids = acc.ids]
                      ELSE [certificates |->
                               Append(acc.certificates,
                                      CertificateRow(e, certificateId,
                                                     batchId, cl.ids, n)),
                            claims |-> cl.claims,
                            ids |-> Append(acc.ids, NumToString(n)),
                            threw |-> FALSE]
             ELSE MintLoopFirstMatch(acc, certificateId, batchId, j + 1)

\* mutant: the row identifier is taken after the Certificate row is pushed
RECURSIVE MintLoopIdAfterPush(_, _, _, _)
MintLoopIdAfterPush(acc, certificateId, batchId, j) ==
    IF acc.threw \/ j > Len(mintEvents) THEN acc
    ELSE LET e == mintEvents[j]
         IN  IF BNeq(e.id, certificateId)
             THEN LET cl == ClaimLoop([acc EXCEPT !.ids = <<>>],
                                      certificateId, 1)
                      n == Len(acc.certificates)
                  IN  IF cl.threw THEN [cl EXCEPT !.ids = acc.ids]
                      ELSE MintLoopIdAfterPush(
                             [certificates |->
                                 Append(acc.certificates,
                                        CertificateRow(e, certificateId,
                                                       batchId, cl.ids, n)),
                              claims |-> cl.claims,
                              ids |-> Append(acc.ids, NumToString(n + 1)),
                              threw |-> FALSE],
                             certificateId, batchId, j + 1)
             ELSE MintLoopIdAfterPush(acc, certificateId, batchId, j + 1)

\* for (const mintEvent of mintEvents), from position j
RECURSIVE MintLoop(_, _, _, _)
MintLoop(acc, certificateId, batchId, j) ==
    IF acc.threw \/ j > Len(mintEvents) THEN acc
    ELSE LET e == mintEvents[j]
         IN  IF BNeq(e.id, certificateId)
             THEN LET cl == ClaimLoop([acc EXCEPT !.ids = <<>>],
                                      certificateId, 1)
                      n == Len(acc.certificates)
                  IN  IF cl.threw THEN [cl EXCEPT !.ids = acc.ids]
                      ELSE MintLoop(
                             [certificates |->
                                 Append(acc.certificates,
                                        CertificateRow(e, certificateId,
                                                       batchId, cl.ids, n)),
                              claims |-> cl.claims,
                              ids |-> Append(acc.ids, NumToString(n)),
                              threw |-> FALSE],
                             certificateId, batchId, j + 1)
             ELSE MintLoop(acc, certificateId, batchId, j + 1)

\* for (const certificateId of certificateIds), from position i
RECURSIVE CertificateIdLoop(_, _, _, _)
CertificateIdLoop(acc, certificateIds, batchId, i) ==
    IF acc.threw \/ i > Len(certificateIds) THEN acc
    ELSE CertificateIdLoop(MintLoop(acc, certificateIds[i], batchId, 1),
                           certificateIds, batchId, i + 1)

\* mutant: the batch-minted events are not filtered by batchId
RECURSIVE BatchMintedLoopAnyBatch(_, _, _)
BatchMintedLoopAnyBatch(acc, redemptionSetEventBatchId, m) ==
    IF acc.threw \/ m > Len(certificateBatchMintedEvents) THEN acc
    ELSE LET e == certificateBatchMintedEvents[m]
         IN  BatchMintedLoopAnyBatch(
                CertificateIdLoop(acc, e.certificateIds, e.batchId, 1),
                redemptionSetEventBatchId, m + 1)

\* for (const certificateBatchMintedEvent of certificateBatchMintedEvents)
RECURSIVE BatchMintedLoop(_, _, _)
BatchMintedLoop(acc, redemptionSetEventBatchId, m) ==
    IF acc.threw \/ m > Len(certificateBatchMintedEvents) THEN acc
    ELSE LET e == certificateBatchMintedEvents[m]
         IN  IF redemptionSetEventBatchId = e.batchId
             THEN BatchMintedLoop(
                    CertificateIdLoop(acc, e.certificateIds, e.batchId, 1),
                    redemptionSetEventBatchId, m + 1)
             ELSE BatchMintedLoop(acc, redemptionSetEventBatchId, m + 1)

\* mutant: batchCertificateIds is declared outside the loop and never reset
RedemptionSetBodyKeepIds(e) ==
    BatchMintedLoop([certificates |-> certificates, claims |-> claims,
                     ids |-> IF batches = <<>> THEN <<>>
                             ELSE batches[Len(batches)].certificateIds,
                     threw |-> FALSE],
                    e.batchId, 1)

\* the body of one iteration of the loop over the redemption-set events
RedemptionSetBody(e) ==
    BatchMintedLoop([certificates |-> certificates, claims |-> claims,
                     ids |-> <<>>, threw |-> FALSE],
                    e.batchId, 1)

\* the report totals: forEach(c => total = total.add(BigNumber.from(c.value)))
RECURSIVE SumValues(_, _)
SumValues(rows, total) ==
    IF rows = <<>> THEN total
    ELSE SumValues(Tail(rows), BNadd(total, BNfrom(Head(rows).value)))

(***************************************************************************)
(* The agreements part of index.ts: the cache of agreement data and the    *)
(* comparison of signed and filled amounts.                                *)
(***************************************************************************)
\* stream.write(`blockId,address,buyer,seller,amount,metadata,valid\n`)
CacheHeader ==
    [blockId |-> "blockId", address |-> "address", buyer |-> "buyer",
     seller |-> "seller", amount |-> "amount", metadata |-> "metadata",
     valid |-> "valid"]

\* the line written for a signed event and the data the accessor answered
CacheRow(e, agreementData) ==
    [blockId |-> e.blockNumber,
     address |-> e.agreementAddress,
     buyer |-> agreementData.buyer,
     seller |-> agreementData.seller,
     amount |-> BNtoString(agreementData.amount),
     metadata |-> agreementData.metadata,
     valid |-> agreementData.valid]

\* const agreementsData: { [key: string]: AgreementData } = {}
EmptyMap == [x \in {} |-> TRUE]

\* agreementsData[agreementAddress] = {...}
MapSet(map, key, value) ==
    [x \in (DOMAIN map) \cup {key} |-> IF x = key THEN value ELSE map[x]]

\* an answer of the accessor that is a rejection
Throws == [threw |-> TRUE]

\* the console.log block of an amount mismatch
Diagnostic(agreementSignedAddress, agreementSignedAmount, agreementFilledAddress) ==
    [agreementAddress |-> agreementSignedAddress,
     agreementSignedAmount |-> BNtoString(agreementSignedAmount),
     agreementFilledAddress |-> agreementFilledAddress]

\* for (const agreementFilledEvent of agreementFilledEvents), from position
\* f, for the signed event at position n.  The loop takes the arguments from
\* agreementSignedEvent.args, not from the filled event (line 314).
RECURSIVE FilledLoop(_, _, _)
FilledLoop(acc, n, f) ==
    IF f > Len(agreementFilledEvents) THEN acc
    ELSE LET agreementSignedEvent == agreementSignedEvents[n]
             agreementSignedAddress == agreementSignedEvent.agreementAddress
             agreementSignedAmount == agreementSignedEvent.amount
             agreementFilledAddress == agreementSignedEvent.agreementAddress
             agreementFilledAmount == agreementSignedEvent.amount
             met == [acc EXCEPT !.compared = @ \cup {<<n, f>>}]
         IN  IF /\ agreementSignedAddress = agreementFilledAddress
                /\ BNtoString(agreementSignedAmount)
                     # BNtoString(agreementFilledAmount)
             THEN FilledLoop(
                    [met EXCEPT !.diagnostics =
                       Append(@, Diagnostic(agreementSignedAddress,
                                            agreementSignedAmount,
                                            agreementFilledAddress))],
                    n, f + 1)
             ELSE FilledLoop(met, n, f + 1)

\* mutant: the valid flag of the cached agreement data is not looked at
ReconcileBodyIgnoresValid(n) ==
    FilledLoop([compared |-> compared, diagnostics |-> diagnostics], n, 1)

\* the body of one iteration of the second loop over the signed events
ReconcileBody(n) ==
    LET cached == agreementsData[agreementSignedEvents[n].agreementAddress]
    IN  IF ~cached.valid
        THEN [compared |-> compared, diagnostics |-> diagnostics]
        ELSE FilledLoop([compared |-> compared, diagnostics |-> diagnostics],
                        n, 1)

(***************************************************************************)
(* Inputs.  The event source returns the events in arrival order; the      *)
(* lists are drawn, with repetition, from small pools of events.           *)
(***************************************************************************)
MaxRedemptionSets == 2
MaxBatchMinted == 2
MaxMints == 2
MaxClaims == 1
MaxPayloads == 2
MaxClaimRefs == 2
MaxSigned == 2
MaxFilled == 2

SeqsUpTo(S, n) == UNION {[1..k -> S] : k \in 0..n}

\* 2^63, so that two of them exceed 64 bits
TwoTo63 == <<32768, 0, 0, 0>>

\* a V3 payload: eight strings, the first two "a" and "b"
BlobV3 ==
    AbiEncodeStrings(<< <<97>>, <<98>>, <<>>, <<>>, <<>>, <<>>, <<>>, <<>> >>)

\* a payload no schema accepts
BlobGarbage == <<99>>

\* certificate ids: 70000 = 1 * 65536 + 4464 (with and without leading zero
\* limbs) and 8
RedemptionSetPool ==
    { [blockNumber |-> 2, batchId |-> "B1", redemptionStatement |-> "rs1",
       storagePointer |-> "sp1", transactionHash |-> "0xa1"],
      [blockNumber |-> 1, batchId |-> "B2", redemptionStatement |-> "rs2",
       storagePointer |-> "sp2", transactionHash |-> "0xa2"] }

CertificateBatchMintedPool ==
    { [batchId |-> "B1", certificateIds |-> << <<0, 1, 4464>>, <<8>> >>],
      [batchId |-> "B2", certificateIds |-> << <<1, 4464>> >>] }

MintPool ==
    { [id |-> <<1, 4464>>, value |-> TwoTo63, operator |-> "0xop", from |-> "0x00",
       to |-> "0xA", transactionHash |-> "0xb1"],
      [id |-> <<0, 8>>, value |-> <<1000>>, operator |-> "0xop",
       from |-> "0x00", to |-> "0xB", transactionHash |-> "0xb2"] }

ClaimEvent(id, value, claimData, tx) ==
    [_claimIssuer |-> "0xis", _claimSubject |-> "0xsp", _topic |-> <<1>>,
     _id |-> id, _value |-> value, _claimData |-> claimData,
     transactionHash |-> tx]

ClaimPool ==
    { ClaimEvent(<<0, 0, 1, 4464>>, TwoTo63, BlobV3, "0xc1"),
      ClaimEvent(<<8>>, <<400>>, BlobGarbage, "0xc2") }

\* the revision and, for index.ts, what the external coder throws on
Revisions(blobs) ==
    { <<"part000", {}>>, <<"index", {}>> } \cup { <<"index", {b}>> : b \in blobs }

\* agreement addresses
Addresses == {"0xA1", "0xA2"}

AgreementSignedPool ==
    { [blockNumber |-> 2, agreementAddress |-> "0xA1", buyer |-> "0xbu",
       seller |-> "0xse", amount |-> <<100>>],
      [blockNumber |-> 1, agreementAddress |-> "0xA2", buyer |-> "0xbu",
       seller |-> "0xse", amount |-> <<7>>] }

\* for 0xA1 a filled amount that differs from the signed one and one that
\* equals it (with a leading zero limb); for 0xA2 an equal amount
AgreementFilledPool ==
    { [agreementAddress |-> "0xA1", certificateId |-> <<8>>, amount |-> <<50>>],
      [agreementAddress |-> "0xA1", certificateId |-> <<8>>,
       amount |-> <<0, 100>>],
      [agreementAddress |-> "0xA2", certificateId |-> <<1, 4464>>,
       amount |-> <<7>>] }

\* what agreementData(address) resolves to
AgreementDataOf(valid) ==
    [buyer |-> "0xbu", seller |-> "0xse", amount |-> <<100>>,
     metadata |-> "md", valid |-> valid]

\* the accessor answers per address, or rejects
Accessors ==
    [Addresses -> {AgreementDataOf(TRUE), AgreementDataOf(FALSE), Throws}]

\* the cache file as an earlier run over 0xA1 left it, or absent
CachesAtStartup ==
    { <<>>,
      <<CacheHeader,
        CacheRow([blockNumber |-> 2, agreementAddress |-> "0xA1"],
                 AgreementDataOf(TRUE))>> }

\* the agreements part is over and has met no agreement event (index.ts), or
\* does not exist (part_000)
NoAgreements ==
    /\ agreementSignedEvents = <<>>
    /\ agreementFilledEvents = <<>>
    /\ accessor = [x \in Addresses |-> AgreementDataOf(TRUE)]
    /\ accessorCalls = <<>>
    /\ agreementsData = EmptyMap
    /\ cacheAtStartup = <<>>
    /\ cacheFile = IF variant = "index" THEN <<CacheHeader>> ELSE <<>>
    /\ stream = IF variant = "index" THEN "ended" ELSE "none"
    /\ opens = IF variant = "index" THEN 1 ELSE 0
    /\ compared = {}
    /\ diagnostics = <<>>
    /\ agreements = <<>>
    /\ signedAt = IF variant = "index" THEN 1 ELSE 0

InitTables ==
    /\ batches = <<>>
    /\ certificates = <<>>
    /\ claims = <<>>
    /\ mintedValue = <<0>>
    /\ claimedValue = <<0>>
    /\ r = 0
    /\ pc = "start"

Init ==
    /\ \E rev \in Revisions({BlobGarbage}) :
          variant = rev[1] /\ coderRejects = rev[2]
    /\ arrival \in SeqsUpTo(RedemptionSetPool, MaxRedemptionSets)
    /\ redemptionSetEvents = arrival
    /\ certificateBatchMintedEvents
          \in SeqsUpTo(CertificateBatchMintedPool, MaxBatchMinted)
    /\ mintEvents \in SeqsUpTo(MintPool, MaxMints)
    /\ claimSingleEvents \in SeqsUpTo(ClaimPool, MaxClaims)
    /\ InitTables
    /\ NoAgreements

\* Inputs for the back references: one batch-minted event, up to
\* MaxClaimRefs claim events, so that one Certificate row owns several claims
InitRefs ==
    /\ \E rev \in Revisions({BlobGarbage}) :
          variant = rev[1] /\ coderRejects = rev[2]
    /\ arrival \in SeqsUpTo(RedemptionSetPool, MaxRedemptionSets)
    /\ redemptionSetEvents = arrival
    /\ certificateBatchMintedEvents \in [1..1 -> CertificateBatchMintedPool]
    /\ mintEvents \in SeqsUpTo(MintPool, MaxMints)
    /\ claimSingleEvents \in SeqsUpTo(ClaimPool, MaxClaimRefs)
    /\ InitTables
    /\ NoAgreements

\* Payloads for the decoder: one per way through the fallback chain
BlobV3Empty ==
    AbiEncodeStrings(<< <<>>, <<>>, <<>>, <<>>, <<>>, <<>>, <<>>, <<>> >>)

\* six strings "a", "c", "", "", "", ""
BlobV1 == AbiEncodeStrings(<< <<97>>, <<99>>, <<>>, <<>>, <<>>, <<>> >>)

\* six strings whose first is "7": also a V2 payload holding the JSON text 7
BlobV1Json == AbiEncodeStrings(<< <<55>>, <<>>, <<>>, <<>>, <<>>, <<>> >>)

\* one string: the JSON text of a nine-field record
BlobV2Record == AbiEncodeStrings(<< JSONstringify(decodeClaimV3(BlobV3)) >>)

\* one string: null
BlobV2Null == AbiEncodeStrings(<< T_null >>)

\* one string: {}
BlobV2EmptyObject == AbiEncodeStrings(<< <<123, 125>> >>)

\* one string: 12
BlobV2Number == AbiEncodeStrings(<< <<49, 50>> >>)

\* one string: {"beneficiary":"a"}
BlobV2Partial ==
    AbiEncodeStrings(<< <<123>> \o Quote(K_beneficiary) \o <<58>>
                          \o Quote(<<97>>) \o <<125>> >>)

\* one string: nul (no JSON text)
BlobV2Bad == AbiEncodeStrings(<< <<110, 117, 108>> >>)

\* eight offsets that all point at one empty string
BlobOverlap == <<8, 8, 8, 8, 8, 8, 8, 8, 0>>

DecoderBlobs ==
    { BlobV3, BlobV3Empty, BlobV1, BlobV1Json, BlobV2Record, BlobV2Null,
      BlobV2EmptyObject, BlobV2Number, BlobV2Partial, BlobV2Bad, BlobGarbage,
      BlobOverlap, <<>> }

\* one batch, one certificate, and one claim event per payload
InitDecoder ==
    /\ \E rev \in Revisions({BlobGarbage}) :
          variant = rev[1] /\ coderRejects = rev[2]
    /\ arrival \in [1..1 -> {e \in RedemptionSetPool : e.batchId = "B1"}]
    /\ redemptionSetEvents = arrival
    /\ certificateBatchMintedEvents
          \in [1..1 -> {e \in CertificateBatchMintedPool : e.batchId = "B1"}]
    /\ mintEvents \in [1..1 -> {e \in MintPool : BNeq(e.id, <<1, 4464>>)}]
    /\ claimSingleEvents
          \in UNION { [1..k -> { ClaimEvent(<<0, 0, 1, 4464>>, <<400>>, b, "0xc1")
                                 : b \in DecoderBlobs }]
                      : k \in 1..MaxPayloads }
    /\ InitTables
    /\ NoAgreements

\* index.ts from its first line: the agreement events as returned, the
\* accessor, the cache file of earlier runs, and a small correlation input
InitSettlement ==
    /\ variant = "index"
    /\ coderRejects \in {{}, {BlobGarbage}}
    /\ arrival \in [1..1 -> {e \in RedemptionSetPool : e.batchId = "B1"}]
    /\ redemptionSetEvents = arrival
    /\ certificateBatchMintedEvents
          \in [1..1 -> {e \in CertificateBatchMintedPool : e.batchId = "B1"}]
    /\ mintEvents \in [1..1 -> {e \in MintPool : BNeq(e.id, <<8>>)}]
    /\ claimSingleEvents
          \in [1..1 -> {ClaimEvent(<<8>>, <<400>>, BlobGarbage, "0xc2")}]
    /\ batches = <<>>
    /\ certificates = <<>>
    /\ claims = <<>>
    /\ mintedValue = <<0>>
    /\ claimedValue = <<0>>
    /\ r = 0
    /\ pc = "begin"
    /\ agreementSignedEvents \in SeqsUpTo(AgreementSignedPool, MaxSigned)
    /\ agreementFilledEvents \in SeqsUpTo(AgreementFilledPool, MaxFilled)
    /\ accessor \in Accessors
    /\ accessorCalls = <<>>
    /\ agreementsData = EmptyMap
    /\ cacheAtStartup \in CachesAtStartup
    /\ cacheFile = cacheAtStartup
    /\ stream = "none"
    /\ opens = 0
    /\ compared = {}
    /\ diagnostics = <<>>
    /\ agreements = <<>>
    /\ signedAt = 0

(***************************************************************************)
(* Actions                                                                 *)
(***************************************************************************)
\* fs.createWriteStream(AGREEMENTS_DATA_CACHE, { flags: 'a' }), the header
\* line, and agreementSignedEvents.sort(...) at the head of the first loop
OpenCache ==
    /\ pc = "begin"
    /\ stream' = "open"
    /\ opens' = opens + 1
    /\ cacheFile' = Append(cacheFile, CacheHeader)
    /\ agreementSignedEvents' = SortByBlockNumber(agreementSignedEvents)
    /\ signedAt' = 1
    /\ pc' = "cache"
    /\ UNCHANGED <<inputs, correlation, agreementFilledEvents, accessor,
                   accessorCalls, agreementsData, cacheAtStartup, compared,
                   diagnostics, agreements>>

\* one iteration of the first loop over the signed events: the accessor
\* answers, the map and the cache file get the answer
UpdateCache ==
    /\ pc = "cache"
    /\ signedAt <= Len(agreementSignedEvents)
    /\ LET e == agreementSignedEvents[signedAt]
           agreementAddress == e.agreementAddress
           agreementData == accessor[agreementAddress]
       IN  /\ agreementData # Throws
           /\ accessorCalls' = Append(accessorCalls, agreementAddress)
           /\ agreementsData' =
                 MapSet(agreementsData, agreementAddress, agreementData)
           /\ cacheFile' = Append(cacheFile, CacheRow(e, agreementData))
    /\ signedAt' = signedAt + 1
    /\ UNCHANGED <<inputs, correlation, pc, agreementSignedEvents,
                   agreementFilledEvents, accessor, cacheAtStartup, stream,
                   opens, compared, diagnostics, agreements>>

\* an iteration in which the accessor rejects: parseEwcData rejects and the
\* handler of parseEwcData().catch reports the error
UpdateCacheRaises ==
    /\ pc = "cache"
    /\ signedAt <= Len(agreementSignedEvents)
    /\ LET agreementAddress == agreementSignedEvents[signedAt].agreementAddress
       IN  /\ accessor[agreementAddress] = Throws
           /\ accessorCalls' = Append(accessorCalls, agreementAddress)
    /\ pc' = "failed"
    /\ UNCHANGED <<inputs, correlation, agreementSignedEvents,
                   agreementFilledEvents, accessor, agreementsData,
                   cacheAtStartup, cacheFile, stream, opens, compared,
                   diagnostics, agreements, signedAt>>

\* stream.end() after the first loop, and agreementSignedEvents.sort(...) at
\* the head of the second
CloseCache ==
    /\ pc = "cache"
    /\ signedAt > Len(agreementSignedEvents)
    /\ stream' = "ended"
    /\ agreementSignedEvents' = SortByBlockNumber(agreementSignedEvents)
    /\ signedAt' = 1
    /\ pc' = "reconcile"
    /\ UNCHANGED <<inputs, correlation, agreementFilledEvents, accessor,
                   accessorCalls, agreementsData, cacheAtStartup, cacheFile,
                   opens, compared, diagnostics, agreements>>

\* one iteration of the second loop over the signed events
Reconcile ==
    /\ pc = "reconcile"
    /\ signedAt <= Len(agreementSignedEvents)
    /\ LET res == ReconcileBody(signedAt)
       IN  /\ compared' = res.compared
           /\ diagnostics' = res.diagnostics
    /\ signedAt' = signedAt + 1
    /\ UNCHANGED <<inputs, correlation, pc, agreementSignedEvents,
                   agreementFilledEvents, accessor, accessorCalls,
                   agreementsData, cacheAtStartup, cacheFile, stream, opens,
                   agreements>>

\* the second loop is over: the correlation follows
EndReconcile ==
    /\ pc = "reconcile"
    /\ signedAt > Len(agreementSignedEvents)
    /\ pc' = "start"
    /\ UNCHANGED <<inputs, correlation, settlement>>

\* redemptionSetEvents.sort(...) at the head of the loop, in place
SortRedemptionSets ==
    /\ pc = "start"
    /\ redemptionSetEvents' = SortByBlockNumber(redemptionSetEvents)
    /\ r' = 1
    /\ pc' = "loop"
    /\ UNCHANGED <<inputs, settlement, batches, certificates, claims,
                   mintedValue, claimedValue>>

\* one iteration of the loop over the redemption-set events
ProcessRedemptionSet ==
    /\ pc = "loop"
    /\ r <= Len(redemptionSetEvents)
    /\ LET e == redemptionSetEvents[r]
           res == RedemptionSetBody(e)
       IN  /\ ~res.threw
           /\ certificates' = res.certificates
           /\ claims' = res.claims
           /\ batches' = Append(batches, BatchRow(e, res.ids, Len(batches)))
    /\ r' = r + 1
    /\ UNCHANGED <<inputs, settlement, redemptionSetEvents, mintedValue,
                   claimedValue, pc>>

\* an iteration in which the external decoder throws: parseEwcData rejects
\* and the handler of parseEwcData().catch reports the error
ProcessRedemptionSetRaises ==
    /\ pc = "loop"
    /\ r <= Len(redemptionSetEvents)
    /\ LET res == RedemptionSetBody(redemptionSetEvents[r])
       IN  /\ res.threw
           /\ certificates' = res.certificates
           /\ claims' = res.claims
    /\ pc' = "failed"
    /\ UNCHANGED <<inputs, settlement, redemptionSetEvents, batches,
                   mintedValue, claimedValue, r>>

\* the minted and claimed totals, after the loop
Report ==
    /\ pc = "loop"
    /\ r > Len(redemptionSetEvents)
    /\ mintedValue' = SumValues(certificates, <<0>>)
    /\ claimedValue' = SumValues(claims, <<0>>)
    /\ pc' = "done"
    /\ UNCHANGED <<inputs, settlement, redemptionSetEvents, batches,
                   certificates, claims, r>>

Next ==
    \/ SortRedemptionSets
    \/ ProcessRedemptionSet
    \/ ProcessRedemptionSetRaises
    \/ Report

Spec == Init /\ [][Next]_vars

\* index.ts as a whole: the agreements part, then the correlation
NextSettlement ==
    \/ OpenCache
    \/ UpdateCache
    \/ UpdateCacheRaises
    \/ CloseCache
    \/ Reconcile
    \/ EndReconcile
    \/ SortRedemptionSets
    \/ ProcessRedemptionSet
    \/ ProcessRedemptionSetRaises
    \/ Report

SpecSettlement == InitSettlement /\ [][NextSettlement]_vars

\* the same program on the decoder's inputs
SpecDecoder == InitDecoder /\ [][Next]_vars

\* the same program on the inputs for the back references
SpecRefs == InitRefs /\ [][Next]_vars

(***************************************************************************)
(* Reference notions used by the properties                                *)
(***************************************************************************)
\* the integer a BigNumber holds (for integers that fit the checker)
RECURSIVE LimbValueAcc(_, _)
LimbValueAcc(a, acc) ==
    IF a = <<>> THEN acc ELSE LimbValueAcc(Tail(a), acc * 65536 + Head(a))

LimbValue(a) == LimbValueAcc(a, 0)

\* the integer a decimal string denotes (for integers that fit the checker)
RECURSIVE GroupValueAcc(_, _)
GroupValueAcc(d, acc) ==
    IF d = <<>> THEN acc ELSE GroupValueAcc(Tail(d), acc * 10000 + Head(d))

GroupValue(d) == GroupValueAcc(d, 0)

\* a decimal string in canonical form
IsCanonical(d) == d # <<>> /\ (d = <<0>> \/ Head(d) # 0)

IntEq(a, b) == LimbValue(a) = LimbValue(b)

\* (r, m, i, t): redemption-set event r, batch-minted event m of the same
\* batchId, position i of its certificateIds, mint event t of that id
CertificateTuples ==
    UNION { UNION { { <<ri, mi, q[1], q[2]>> :
                      q \in { q \in (1..Len(certificateBatchMintedEvents[mi]
                                                .certificateIds))
                                     \X (1..Len(mintEvents)) :
                                 /\ redemptionSetEvents[ri].batchId
                                      = certificateBatchMintedEvents[mi].batchId
                                 /\ IntEq(mintEvents[q[2]].id,
                                          certificateBatchMintedEvents[mi]
                                              .certificateIds[q[1]]) } }
                    : mi \in 1..Len(certificateBatchMintedEvents) }
            : ri \in 1..Len(redemptionSetEvents) }

\* (r, m, i, t, c): such a tuple extended by a claim event c of that id
ClaimTuples ==
    { <<u[1], u[2], u[3], u[4], c>> :
        <<u, c>> \in { w \in CertificateTuples \X (1..Len(claimSingleEvents)) :
                         IntEq(claimSingleEvents[w[2]]._id,
                               certificateBatchMintedEvents[w[1][2]]
                                   .certificateIds[w[1][3]]) } }

Rows(table) == { table[i] : i \in 1..Len(table) }

\* the token id a Claim row carries
ClaimToken(cl) == IF variant = "index" THEN cl.tokenId ELSE cl.certificateId

\* batchIds for which a redemption-set event exists
RedeemedBatchIds == { arrival[i].batchId : i \in 1..Len(arrival) }

\* ledger sequence number of the redemption-set event behind a Batch row
BlockOf(row) ==
    (CHOOSE e \in RedemptionSetPool : e.transactionHash = row.transactionHash)
        .blockNumber

(***************************************************************************)
(* C1  The correlation is a non-deduplicating cross product: when the run  *)
(* completes, there are as many Certificate rows as tuples (redemption-set *)
(* event, batch-minted event of that batch, position in its certificate    *)
(* ids, mint event of that id) and as many Claim rows as such tuples       *)
(* extended by a claim event of that id.                                   *)
(***************************************************************************)
C1_CrossProduct ==
    pc = "done" =>
        /\ Len(certificates) = Cardinality(CertificateTuples)
        /\ Len(claims) = Cardinality(ClaimTuples)

\* two mint events of one certificate id gave two Certificate rows
C1_Witness ==
    /\ pc = "done"
    /\ \E u \in CertificateTuples, w \in CertificateTuples :
          /\ u[1] = w[1] /\ u[2] = w[2] /\ u[3] = w[3] /\ u[4] # w[4]
          /\ Len(certificates) >= 2
    /\ claims # <<>>

(***************************************************************************)
(* C2  (as claimed) Every redemption-set event yields exactly one Batch    *)
(* row, with an empty certificateIds list when nothing matches, and no     *)
(* input row makes the correlation pass fail.                              *)
(***************************************************************************)
C2_EveryRedemptionSetYieldsBatch ==
    /\ pc # "failed"
    /\ pc = "done" =>
          /\ Len(batches) = Len(arrival)
          /\ \A i \in 1..Len(batches) :
                /\ batches[i].batchId = redemptionSetEvents[i].batchId
                /\ (\A u \in CertificateTuples : u[1] # i)
                      => batches[i].certificateIds = <<>>

(***************************************************************************)
(* C3  Batch rows are in ascending order of the blockNumber of their       *)
(* redemption-set events, whatever the arrival order.                      *)
(***************************************************************************)
C3_BatchOrder ==
    \A i \in 1..Len(batches), j \in 1..Len(batches) :
        i < j => BlockOf(batches[i]) <= BlockOf(batches[j])

\* the events arrived in descending order and every one has its Batch row
C3_Witness ==
    /\ pc = "done"
    /\ Len(arrival) >= 2
    /\ arrival[1].blockNumber > arrival[2].blockNumber
    /\ Len(batches) = Len(arrival)

(***************************************************************************)
(* C4  A batch-minted event whose batchId no redemption-set event has      *)
(* contributes nothing: every Certificate row references a redeemed batch  *)
(* (where the row records it) and every Certificate and Claim row carries  *)
(* a certificate id listed by a batch-minted event of a redeemed batch.    *)
(***************************************************************************)
ListedByRedeemedBatch(token) ==
    \E mi \in 1..Len(certificateBatchMintedEvents) :
        /\ certificateBatchMintedEvents[mi].batchId \in RedeemedBatchIds
        /\ \E i \in 1..Len(certificateBatchMintedEvents[mi].certificateIds) :
              LimbValue(certificateBatchMintedEvents[mi].certificateIds[i])
                  = GroupValue(token)

C4_NoUnredeemedBatch ==
    /\ variant = "index" =>
          \A c \in Rows(certificates) : c.batchId \in RedeemedBatchIds
    /\ \A c \in Rows(certificates) : ListedByRedeemedBatch(c.tokenId)
    /\ \A cl \in Rows(claims) : ListedByRedeemedBatch(ClaimToken(cl))

\* a batch-minted event of an unredeemed batch lists a minted and claimed
\* certificate id that no redeemed batch lists, next to a redeemed batch
C4_Witness ==
    /\ pc = "done"
    /\ variant = "index"
    /\ certificates # <<>>
    /\ \E mi \in 1..Len(certificateBatchMintedEvents) :
          LET e == certificateBatchMintedEvents[mi]
          IN  /\ e.batchId \notin RedeemedBatchIds
              /\ \E i \in 1..Len(e.certificateIds) :
                    /\ ~ListedByRedeemedBatch(BNtoString(e.certificateIds[i]))
                    /\ \E t \in 1..Len(mintEvents) :
                          IntEq(mintEvents[t].id, e.certificateIds[i])
                    /\ \E c \in 1..Len(claimSingleEvents) :
                          IntEq(claimSingleEvents[c]._id, e.certificateIds[i])

(***************************************************************************)
(* C5  Token ids agree: every Certificate and Claim row carries the        *)
(* canonical decimal rendering of an id that a mint event, respectively a  *)
(* claim event, holds as an integer; every Claim listed in a Certificate's *)
(* claimIds carries that Certificate's token id; and where no back         *)
(* reference is kept, every Claim of a pass that did not abort has a       *)
(* Certificate of the same token id.                                       *)
(***************************************************************************)
C5_TokenIdsAgree ==
    /\ \A c \in Rows(certificates) :
          /\ IsCanonical(c.tokenId)
          /\ \E t \in 1..Len(mintEvents) :
                LimbValue(mintEvents[t].id) = GroupValue(c.tokenId)
    /\ \A cl \in Rows(claims) :
          /\ IsCanonical(ClaimToken(cl))
          /\ \E e \in 1..Len(claimSingleEvents) :
                LimbValue(claimSingleEvents[e]._id) = GroupValue(ClaimToken(cl))
    /\ variant = "part000" =>
          \A c \in Rows(certificates) :
             \A k \in 1..Len(c.claimIds) :
                /\ \E cl \in Rows(claims) : cl.id = c.claimIds[k]
                /\ \A cl \in Rows(claims) :
                      cl.id = c.claimIds[k] => cl.certificateId = c.tokenId
    /\ (variant = "index" /\ pc # "failed") =>
          \A cl \in Rows(claims) :
             \E c \in Rows(certificates) : c.tokenId = cl.tokenId

\* a Certificate with an attached Claim, from ids encoded differently in the
\* batch-minted, the mint and the claim event
C5_Witness ==
    /\ pc = "done"
    /\ variant = "part000"
    /\ \E c \in Rows(certificates) :
          /\ c.claimIds # <<>>
          /\ \E t \in 1..Len(mintEvents), e \in 1..Len(claimSingleEvents) :
                /\ GroupValue(c.tokenId) = LimbValue(mintEvents[t].id)
                /\ IntEq(mintEvents[t].id, claimSingleEvents[e]._id)
                /\ mintEvents[t].id # claimSingleEvents[e]._id
                /\ c.tokenId # mintEvents[t].id

(***************************************************************************)
(* Reference notions for the decoder                                       *)
(***************************************************************************)
\* the serialized record with the given nine texts
ClaimDataText(beneficiary, region, countryCode, periodStartDate,
              periodEndDate, purpose, consumptionEntityID, proofID,
              location) ==
    <<123>> \o Quote(K_beneficiary) \o <<58>> \o Quote(beneficiary)
        \o <<44>> \o Quote(K_region) \o <<58>> \o Quote(region)
        \o <<44>> \o Quote(K_countryCode) \o <<58>> \o Quote(countryCode)
        \o <<44>> \o Quote(K_periodStartDate) \o <<58>> \o Quote(periodStartDate)
        \o <<44>> \o Quote(K_periodEndDate) \o <<58>> \o Quote(periodEndDate)
        \o <<44>> \o Quote(K_purpose) \o <<58>> \o Quote(purpose)
        \o <<44>> \o Quote(K_consumptionEntityID) \o <<58>>
        \o Quote(consumptionEntityID)
        \o <<44>> \o Quote(K_proofID) \o <<58>> \o Quote(proofID)
        \o <<44>> \o Quote(K_location) \o <<58>> \o Quote(location)
        \o <<125>>

\* whether each schema parses the blob cleanly
ParsesV3(b) == AbiDecodeStrings(8, b).ok
ParsesV1(b) == AbiDecodeStrings(6, b).ok
ParsesV2(b) ==
    /\ AbiDecodeStrings(1, b).ok
    /\ JSONparse(AbiDecodeStrings(1, b).vals[1]).ok

\* the serialized decode-failure marker
Marker == T_null

ClaimDataFields ==
    { K_beneficiary, K_region, K_countryCode, K_periodStartDate,
      K_periodEndDate, K_purpose, K_consumptionEntityID, K_proofID,
      K_location }

\* a record of exactly the nine fields, each a text
IsClaimData(v) ==
    /\ v.t = "obj"
    /\ Len(v.m) = 9
    /\ { v.m[i][1] : i \in 1..Len(v.m) } = ClaimDataFields
    /\ \A i \in 1..Len(v.m) : v.m[i][2].t = "str"

(***************************************************************************)
(* C6  The schemas are tried in the order V3, V1, V2 and the first that    *)
(* succeeds gives the result: a blob V3 parses decodes as the V3 record    *)
(* (location empty); a blob V1 parses and V3 does not decodes as the V1    *)
(* record (region, consumptionEntityID, proofID empty), also when V2 would *)
(* parse it; V2's result, or the marker, is stored only when both failed.  *)
(***************************************************************************)
C6_FallbackOrder ==
    variant = "part000" =>
        \A cl \in Rows(claims) :
            LET b == cl.claimData
                v8 == AbiDecodeStrings(8, b).vals
                v6 == AbiDecodeStrings(6, b).vals
                v1 == AbiDecodeStrings(1, b).vals
            IN  /\ ParsesV3(b) =>
                      cl.claimDataDecoded
                        = ClaimDataText(v8[1], v8[2], v8[3], v8[4], v8[5],
                                        v8[6], v8[7], v8[8], <<>>)
                /\ (~ParsesV3(b) /\ ParsesV1(b)) =>
                      cl.claimDataDecoded
                        = ClaimDataText(v6[1], <<>>, v6[3], v6[4], v6[5],
                                        v6[6], <<>>, <<>>, v6[2])
                /\ (~ParsesV3(b) /\ ~ParsesV1(b)) =>
                      cl.claimDataDecoded
                        = IF ParsesV2(b)
                          THEN JSONstringify(JSONparse(v1[1]).v)
                          ELSE Marker

\* one claim decoded as V3 although V1 parses it too, and one decoded as V1
\* although V2 parses it too
C6_Witness ==
    /\ pc = "done"
    /\ variant = "part000"
    /\ \E cl \in Rows(claims) :
          /\ ParsesV3(cl.claimData) /\ ParsesV1(cl.claimData)
          /\ cl.claimDataDecoded = JSONstringify(decodeClaimV3(cl.claimData))
          /\ cl.claimDataDecoded # JSONstringify(decodeClaimV1(cl.claimData))
    /\ \E cl \in Rows(claims) :
          /\ ~ParsesV3(cl.claimData)
          /\ ParsesV1(cl.claimData) /\ ParsesV2(cl.claimData)
          /\ cl.claimDataDecoded = JSONstringify(decodeClaimV1(cl.claimData))
          /\ cl.claimDataDecoded # JSONstringify(decodeClaimV2(cl.claimData))

(***************************************************************************)
(* C7  (as claimed) Decoding never raises to the correlation engine: the   *)
(* pass never aborts, and when it is over every claim event matched to a   *)
(* certificate has its Claim row with a serialized decode result.          *)
(***************************************************************************)
C7_DecodingNeverRaises ==
    /\ pc # "failed"
    /\ pc = "done" =>
          /\ Len(claims) = Cardinality(ClaimTuples)
          /\ \A cl \in Rows(claims) : cl.claimDataDecoded # <<>>

(***************************************************************************)
(* C8  (as claimed) The stored value is the decode-failure marker if and   *)
(* only if all three schemas failed, and the marker differs from the       *)
(* serialized all-empty record.                                            *)
(***************************************************************************)
C8_MarkerIffAllFailed ==
    variant = "part000" =>
        /\ \A cl \in Rows(claims) :
              (cl.claimDataDecoded = Marker)
                <=> ~(ParsesV3(cl.claimData) \/ ParsesV1(cl.claimData)
                        \/ ParsesV2(cl.claimData))
        /\ Marker # ClaimDataText(<<>>, <<>>, <<>>, <<>>, <<>>, <<>>, <<>>,
                                  <<>>, <<>>)

(***************************************************************************)
(* C9  (as claimed) The decoder's result is the decode-failure marker or a *)
(* record of exactly the nine ClaimData fields, each a text, whichever     *)
(* schema produced it.                                                     *)
(***************************************************************************)
C9_ResultIsClaimDataOrMarker ==
    variant = "part000" =>
        \A cl \in Rows(claims) :
            LET v == DecodeClaimData(cl.claimData)
            IN  /\ cl.claimDataDecoded = JSONstringify(v)
                /\ v = JNull \/ IsClaimData(v)

(***************************************************************************)
(* C10  The minted total is the exact sum of value over the Certificate    *)
(* rows and the claimed total the exact sum of value over the Claim rows,  *)
(* at any width, and computing them leaves the three tables unchanged.     *)
(***************************************************************************)
\* column addition of the decimal strings themselves
RECURSIVE DecimalSumLE(_, _)
DecimalSumLE(rows, accLE) ==
    IF rows = <<>> THEN accLE
    ELSE DecimalSumLE(Tail(rows),
                      AddLE(accLE, Reverse(Head(rows).value), 0, 10000))

DecimalSum(rows) == Canonical(DecimalSumLE(rows, <<>>))

C10_ExactTotals ==
    /\ [](pc = "done" =>
            /\ BNtoString(mintedValue) = DecimalSum(certificates)
            /\ BNtoString(claimedValue) = DecimalSum(claims))
    /\ [][pc' = "done" =>
            /\ batches' = batches
            /\ certificates' = certificates
            /\ claims' = claims]_vars

\* both totals exceed 64 bits
C10_Witness ==
    /\ pc = "done"
    /\ Len(mintedValue) > 4
    /\ Len(claimedValue) > 4
    /\ Len(certificates) >= 2
    /\ Len(claims) >= 2

(***************************************************************************)
(* C14  Every step that emits a Batch row leaves in its certificateIds     *)
(* exactly the row identifiers, in emission order, of the Certificate rows *)
(* appended during that step, and each of these rows comes from a          *)
(* batch-minted event of the Batch row's batchId (and carries that batchId *)
(* where the revision records it).                                         *)
(***************************************************************************)
\* some batch-minted event of that batchId lists the token
ListedByBatch(batchId, token) ==
    \E mi \in 1..Len(certificateBatchMintedEvents) :
        /\ certificateBatchMintedEvents[mi].batchId = batchId
        /\ \E i \in 1..Len(certificateBatchMintedEvents[mi].certificateIds) :
              LimbValue(certificateBatchMintedEvents[mi].certificateIds[i])
                  = GroupValue(token)

C14_BatchReferences ==
    [][Len(batches') = Len(batches) + 1 =>
         LET b == batches'[Len(batches')]
             n0 == Len(certificates)
             n1 == Len(certificates')
         IN  /\ Len(b.certificateIds) = n1 - n0
             /\ \A k \in 1..(n1 - n0) :
                   /\ IsCanonical(b.certificateIds[k])
                   /\ GroupValue(b.certificateIds[k]) = n0 + k - 1
                   /\ ListedByBatch(b.batchId, certificates'[n0 + k].tokenId)
                   /\ variant = "index" =>
                         certificates'[n0 + k].batchId = b.batchId
                   /\ variant = "part000" =>
                         certificates'[n0 + k].id = b.certificateIds[k]]_vars

\* two Batch rows, the first with two Certificate rows, the second with one
C14_Witness ==
    /\ Len(batches) = 2
    /\ Len(batches[1].certificateIds) = 2
    /\ Len(batches[2].certificateIds) >= 1
    /\ batches[1].batchId # batches[2].batchId

(***************************************************************************)
(* C16  Between the iterations of the correlation pass and after it, the   *)
(* identifier of every Certificate row is its position in the certificates *)
(* table, counted from 0, and the certificateIds lists of the Batch rows,  *)
(* concatenated in batch output order, read 0, 1, ..., n-1 for the n       *)
(* Certificate rows: every Certificate row is referenced by exactly one    *)
(* Batch row and no entry is out of range or repeated.                     *)
(***************************************************************************)
RECURSIVE AllCertificateIds(_)
AllCertificateIds(bs) ==
    IF bs = <<>> THEN <<>>
    ELSE Head(bs).certificateIds \o AllCertificateIds(Tail(bs))

\* ids reads 0, 1, ..., n-1 in canonical decimal
CountsFromZero(ids, n) ==
    /\ Len(ids) = n
    /\ \A k \in 1..n : IsCanonical(ids[k]) /\ GroupValue(ids[k]) = k - 1

C16_CertificateIdsPartition ==
    pc \in {"loop", "done"} =>
        /\ variant = "part000" =>
              CountsFromZero([k \in 1..Len(certificates) |-> certificates[k].id],
                             Len(certificates))
        /\ CountsFromZero(AllCertificateIds(batches), Len(certificates))

\* three Certificate rows shared out over two Batch rows
C16_Witness ==
    /\ pc = "done"
    /\ Len(certificates) >= 3
    /\ Len(batches) = 2
    /\ batches[1].certificateIds # <<>>
    /\ batches[2].certificateIds # <<>>

(***************************************************************************)
(* C17  In the back-reference revision, between the iterations of the      *)
(* correlation pass and after it, every Claim row's id is its position in  *)
(* the claims table counted from 0, the claimIds of every Certificate row  *)
(* are consecutive ascending positions below the length of the claims      *)
(* table, and the claimIds lists taken in certificate order read           *)
(* 0, 1, ..., k-1 for the k Claim rows: every Claim row is referenced by   *)
(* exactly one Certificate row.                                            *)
(***************************************************************************)
RECURSIVE AllClaimIds(_)
AllClaimIds(cs) ==
    IF cs = <<>> THEN <<>>
    ELSE Head(cs).claimIds \o AllClaimIds(Tail(cs))

\* ids is a run of consecutive positions below n
ContiguousBelow(ids, n) ==
    /\ \A k \in 1..Len(ids) : IsCanonical(ids[k]) /\ GroupValue(ids[k]) < n
    /\ \A k \in 1..(Len(ids) - 1) :
          GroupValue(ids[k + 1]) = GroupValue(ids[k]) + 1

C17_ClaimIdsPartition ==
    (variant = "part000" /\ pc \in {"loop", "done"}) =>
        /\ CountsFromZero([k \in 1..Len(claims) |-> claims[k].id], Len(claims))
        /\ \A i \in 1..Len(certificates) :
              ContiguousBelow(certificates[i].claimIds, Len(claims))
        /\ CountsFromZero(AllClaimIds(certificates), Len(claims))

\* two Certificate rows that own two Claim rows each
C17_Witness ==
    /\ variant = "part000"
    /\ pc = "done"
    /\ \E i, j \in 1..Len(certificates) :
          /\ i < j
          /\ Len(certificates[i].claimIds) = 2
          /\ Len(certificates[j].claimIds) = 2

(***************************************************************************)
(* C11  When the comparison of signed and filled amounts is over, every    *)
(* signed agreement event whose cached data is valid and every filled      *)
(* agreement event of the same agreement address whose amount differs from *)
(* the signed amount have an amount-mismatch diagnostic for that address   *)
(* and signed amount on the console.                                       *)
(***************************************************************************)
C11_MismatchReported ==
    pc \in {"start", "loop", "done"} =>
        \A n \in 1..Len(agreementSignedEvents) :
            \A f \in 1..Len(agreementFilledEvents) :
                LET sg == agreementSignedEvents[n]
                    fl == agreementFilledEvents[f]
                IN  ( /\ agreementsData[sg.agreementAddress].valid
                      /\ sg.agreementAddress = fl.agreementAddress
                      /\ LimbValue(sg.amount) # LimbValue(fl.amount) )
                    => \E k \in 1..Len(diagnostics) :
                          /\ diagnostics[k].agreementAddress
                               = sg.agreementAddress
                          /\ GroupValue(diagnostics[k].agreementSignedAmount)
                               = LimbValue(sg.amount)

(***************************************************************************)
(* C12  The accessor agreementData is called at most once per agreement    *)
(* address within a run and never for an address the cache file held at    *)
(* startup, and a row is appended to the cache file only for an address    *)
(* that neither the file at startup nor an earlier appended row holds.     *)
(***************************************************************************)
\* the addresses of the rows among the given lines (the header is no row)
RowAddresses(lines) ==
    { lines[k].address : k \in 1..Len(lines) } \ { CacheHeader.address }

C12_ReadThroughCache ==
    /\ \A k, l \in 1..Len(accessorCalls) :
          accessorCalls[k] = accessorCalls[l] => k = l
    /\ \A k \in 1..Len(accessorCalls) :
          accessorCalls[k] \notin RowAddresses(cacheAtStartup)
    /\ \A k \in (Len(cacheAtStartup) + 1)..Len(cacheFile) :
          cacheFile[k].address # CacheHeader.address =>
              cacheFile[k].address
                  \notin RowAddresses(SubSeq(cacheFile, 1, k - 1))

(***************************************************************************)
(* C13  A signed agreement whose cached agreement data has valid = false   *)
(* is never met with a filled agreement event by the comparison, and no    *)
(* amount-mismatch diagnostic and no Agreement row exists for its address. *)
(***************************************************************************)
\* the cached agreement data of the address says valid = false
CachedInvalid(address) ==
    /\ address \in DOMAIN agreementsData
    /\ ~agreementsData[address].valid

C13_InvalidExcluded ==
    /\ \A p \in compared :
          ~CachedInvalid(agreementSignedEvents[p[1]].agreementAddress)
    /\ \A k \in 1..Len(diagnostics) :
          ~CachedInvalid(diagnostics[k].agreementAddress)
    /\ \A k \in 1..Len(agreements) :
          ~CachedInvalid(agreements[k].agreementAddress)

\* the comparison is over; it met a valid signed agreement with a filled
\* event and passed over an invalid one that has a filled event of a
\* different amount
C13_Witness ==
    /\ pc = "start"
    /\ compared # {}
    /\ \E n \in 1..Len(agreementSignedEvents) :
          /\ CachedInvalid(agreementSignedEvents[n].agreementAddress)
          /\ \E f \in 1..Len(agreementFilledEvents) :
                /\ agreementFilledEvents[f].agreementAddress
                     = agreementSignedEvents[n].agreementAddress
                /\ LimbValue(agreementFilledEvents[f].amount)
                     # LimbValue(agreementSignedEvents[n].amount)

(***************************************************************************)
(* C15  When a run of index.ts is over, completed or aborted, the stream   *)
(* of the cache file has been opened exactly once and has been ended.      *)
(***************************************************************************)
C15_StreamClosedOnEveryRun ==
    (variant = "index" /\ pc \in {"done", "failed"}) =>
        /\ opens = 1
        /\ stream = "ended"

====
